---- MODULE Spec2Model ----
(***************************************************************************)
(* Period-click engine of git_hit_monitor (helpers/process_data_helper.py),*)
(* with the range splitting of the plots (helpers/enum_helper.py,          *)
(* helpers/plot_helper.py) and the sheet writer (helpers/sheets_helper.py).*)
(* Each part has its own initial condition and next-state relation; the    *)
(* variables of the parts that take no part in a run keep their idle       *)
(* values.                                                                 *)
(*                                                                         *)
(* Time is counted in ticks.  A day is TicksPerDay ticks, a month is       *)
(* DaysPerMonth days, a quarter MonthsPerQuarter months and a year         *)
(* MonthsPerYear months; tick 0 is midnight of the first day of calendar   *)
(* month EpochMonth (0 = January) of year 0.  Click amounts are exact      *)
(* rationals <<num, den>>; the returned frames hold them in hundredths     *)
(* (Cents), which is what round(2) leaves of a float.                      *)
(***************************************************************************)
EXTENDS Integers, Sequences, FiniteSets, TLC

\* ---------------------------------------------------------------- bounds
MaxSamples == 3
MaxValue == 2
MaxTime == 10
MaxDailyTime == 8
EpochMonth == 10
MaxShareTime == 5
MaxCoverTime == 4
MaxAnyTime == 3
MaxTwiceTime == 4
MaxStartTick == 47
MaxSpanTicks == 13
MaxSpanRanges == 3
MaxRows == 3
MaxSheetValue == 3
MaxClock == 2

\* the worksheet that is there before the program starts
MaxPreRows == 2

MaxPreTime == 1

MaxPreValue == 1

\* calls of process_view_count in a run
MaxCalls == 2

\* seconds asked of countdown_timer, keys pressed during a countdown
MaxInterval == 3

MaxKeys == 2

\* ------------------------------------------------------ calendar constants
TicksPerDay == 2
DaysPerMonth == 2
MonthsPerQuarter == 3
MonthsPerYear == 12
Cents == 100
EpsInverse == 1000000

TicksPerMonth == DaysPerMonth * TicksPerDay

VARIABLES
    df,             \* the caller's frame: sequence of [timestamp, number]
    op,             \* the operation that was called ("none" before the call)
    period_counts,  \* calculate_clicks' list of per-row allocations
    result,         \* the returned frame: rows [period_start, clicks]
    raised,         \* the exception the call raised ("none" when it returned)
    previous,       \* what the call before a repeated call gave (<<>> before)
    share_args,     \* a row and a window handed to process_multiple_periods
    cover_args,     \* a row and a list of period starts handed to it
    cover_out,      \* the allocations returned for the list
    share_out,      \* the click count it allocated to the window
    range_args,     \* the data span and group range of _split_into_ranges
    ranges,         \* the (start, end) list it returned
    sheet,          \* the rows of the worksheet
    all_values,     \* the rows append_to_sheet read from the worksheet
    now,            \* the clock (datetime.now)
    ret,            \* what append_to_sheet returned
    sheet_df,       \* the frame that main keeps in memory beside the worksheet
    pvc,            \* what process_view_count returned
    timer           \* a call of countdown_timer, the terminal and stdin

engine_vars == <<df, op, period_counts, result, raised, previous>>

share_vars == <<share_args, share_out, cover_args, cover_out>>

range_vars == <<range_args, ranges>>

sheet_vars == <<sheet, all_values, now, ret, sheet_df, pvc>>

timer_vars == <<timer>>

vars == <<engine_vars, share_vars, range_vars, sheet_vars, timer_vars>>

\* ------------------------------------------------------------- arithmetic
Max(a, b) == IF a >= b THEN a ELSE b
Min(a, b) == IF a <= b THEN a ELSE b

\* exact rationals <<num, den>>, den > 0
FracAdd(p, q) == <<p[1] * q[2] + q[1] * p[2], p[2] * q[2]>>

\* Series.round(2): the nearest hundredth, a tie going to the even one;
\* the result is the number of hundredths.
Round2(q) ==
    LET n == Cents * q[1]
        k == n \div q[2]
        r == n % q[2]
    IN  IF 2 * r < q[2] THEN k
        ELSE IF 2 * r > q[2] THEN k + 1
        ELSE IF k % 2 = 0 THEN k ELSE k + 1

\* ---------------------------------------------------------------- frames
\* DataFrame.sort_values('timestamp') on frames of this size: insertion sort,
\* rows with equal timestamps keep their order.
RECURSIVE SortByTimestamp(_)
SortByTimestamp(s) ==
    IF Len(s) <= 1 THEN s
    ELSE LET last == s[Len(s)]
             head == SortByTimestamp(SubSeq(s, 1, Len(s) - 1))
             keep == {i \in 1..Len(head) : head[i].timestamp <= last.timestamp}
             k == Cardinality(keep)
         IN  SubSeq(head, 1, k) \o <<last>> \o SubSeq(head, k + 1, Len(head))

\* generate_clicks_dataframe: count = number.diff().fillna(1), in the order
\* of the caller's rows.
generate_clicks_dataframe(base_df) ==
    [i \in 1..Len(base_df) |->
        [timestamp |-> base_df[i].timestamp,
         count |-> IF i = 1 THEN 1
                   ELSE base_df[i].number - base_df[i - 1].number]]

convert_and_sort_timestamps(clicks_dataframe) ==
    SortByTimestamp(clicks_dataframe)

generate_and_prepare_clicks_dataframe(base_df) ==
    convert_and_sort_timestamps(generate_clicks_dataframe(base_df))

\* calculate_interval_durations on a non-empty frame (index[0] raises
\* IndexError on an empty one): prev_timestamp = shift(1), the first row's
\* own timestamp for the first row; interval_duration 0 stands for the
\* float eps that replaces a zero duration.
calculate_interval_durations(clicks_dataframe) ==
    [i \in 1..Len(clicks_dataframe) |->
        LET prev == IF i = 1 THEN clicks_dataframe[1].timestamp
                    ELSE clicks_dataframe[i - 1].timestamp
        IN  [timestamp |-> clicks_dataframe[i].timestamp,
             count |-> clicks_dataframe[i].count,
             prev_timestamp |-> prev,
             interval_duration |-> clicks_dataframe[i].timestamp - prev]]

\* a timestamp taken for the start of its day as it stands
floor_day_kept(t) == t

\* Timestamp.floor('D')
floor_day(t) == (t \div TicksPerDay) * TicksPerDay

\* pd.date_range(start, end, freq): start, start + step, ... while <= end
date_range(start, end, step) ==
    IF end < start THEN <<>>
    ELSE [i \in 1..((end - start) \div step + 1) |-> start + (i - 1) * step]

process_single_period(count, period_start) ==
    [period_start |-> period_start, clicks |-> <<count, 1>>]

\* a zero duration given the whole count instead of count * overlap / eps
allocated_count_whole(count, overlap_duration, interval_duration) ==
    IF interval_duration = 0
    THEN <<count, 1>>
    ELSE <<count * overlap_duration, interval_duration>>

\* count * (overlap_duration / interval_duration); a zero duration was
\* replaced by the float eps, whose reciprocal EpsInverse stands for
allocated_count(count, overlap_duration, interval_duration) ==
    IF interval_duration = 0
    THEN <<count * overlap_duration * EpsInverse, 1>>
    ELSE IF interval_duration > 0
         THEN <<count * overlap_duration, interval_duration>>
         ELSE <<-(count * overlap_duration), -interval_duration>>

\* the overlap taken from the period's start, whatever the previous timestamp
overlap_start_unclamped(row, period_start) == period_start

overlap_start(row, period_start) == Max(row.prev_timestamp, period_start)

\* the overlap taken up to the period's end, whatever the row's timestamp
overlap_end_unclamped(row, period_end) == period_end

overlap_end(row, period_end) == Min(row.timestamp, period_end)

process_multiple_periods(row, period_starts) ==
    [i \in 1..(Len(period_starts) - 1) |->
        LET period_start == period_starts[i]
            period_end == period_starts[i + 1]
            overlap_duration == overlap_end(row, period_end)
                                - overlap_start(row, period_start)
        IN  [period_start |-> period_start,
             clicks |-> allocated_count(row.count, overlap_duration,
                                        row.interval_duration)]]

\* the periods of a row taken from the day before its previous sample
row_period_starts_day_early(row, period_days) ==
    date_range(floor_day(row.prev_timestamp) - period_days * TicksPerDay,
               floor_day(row.timestamp) + period_days * TicksPerDay,
               period_days * TicksPerDay)

row_period_starts(row, period_days) ==
    date_range(floor_day(row.prev_timestamp),
               floor_day(row.timestamp) + period_days * TicksPerDay,
               period_days * TicksPerDay)

row_period_counts(row, period_days) ==
    LET period_starts == row_period_starts(row, period_days)
    IN  IF Len(period_starts) = 1
        THEN <<process_single_period(row.count, period_starts[1])>>
        ELSE process_multiple_periods(row, period_starts)

RECURSIVE all_period_counts(_, _, _)
all_period_counts(rows, i, period_days) ==
    IF i > Len(rows) THEN <<>>
    ELSE row_period_counts(rows[i], period_days)
         \o all_period_counts(rows, i + 1, period_days)

RECURSIVE SumClicks(_, _, _)
SumClicks(counts, key, i) ==
    IF i > Len(counts) THEN <<0, 1>>
    ELSE IF counts[i].period_start = key
         THEN FracAdd(counts[i].clicks, SumClicks(counts, key, i + 1))
         ELSE SumClicks(counts, key, i + 1)

\* the rows of a frame indexed by the set keys, in index order
RECURSIVE SortedKeys(_)
SortedKeys(keys) ==
    IF keys = {} THEN <<>>
    ELSE LET m == CHOOSE x \in keys : \A y \in keys : x <= y
         IN  <<m>> \o SortedKeys(keys \ {m})

\* result_df.groupby('period_start')[column_name].sum().round(2)
groupby_sum_round(counts) ==
    LET keys == SortedKeys({counts[i].period_start : i \in 1..Len(counts)})
    IN  [k \in 1..Len(keys) |->
            [period_start |-> keys[k],
             clicks |-> Round2(SumClicks(counts, keys[k], 1))]]

\* calculate_clicks up to the list it builds
calculate_clicks_counts(base_df, period_days) ==
    all_period_counts(
        calculate_interval_durations(
            generate_and_prepare_clicks_dataframe(base_df)),
        1, period_days)

\* ---------------------------------------------------------- month/quarter/year
\* dt.to_period('M'), as a month number counted from January of year 0
to_period_M(t) == EpochMonth + (t \div TicksPerMonth)

to_period_Q(t) == to_period_M(t) \div MonthsPerQuarter

dt_year(t) == to_period_M(t) \div MonthsPerYear

\* PeriodIndex.to_timestamp(): the first tick of the period
month_to_timestamp(m) == (m - EpochMonth) * TicksPerMonth

quarter_to_timestamp(q) == month_to_timestamp(q * MonthsPerQuarter)

year_to_timestamp(y) == month_to_timestamp(y * MonthsPerYear)

\* groupby(key)['number'].agg(['first', 'last']) followed by last.shift(1)
\* and the row-wise last - (prev_last if notnull else first); freq is the
\* period of the grouping: "M", "Q" or "Y".
group_key(freq, t) ==
    CASE freq = "M" -> to_period_M(t)
      [] freq = "Q" -> to_period_Q(t)
      [] OTHER -> dt_year(t)

group_timestamp(freq, k) ==
    CASE freq = "M" -> month_to_timestamp(k)
      [] freq = "Q" -> quarter_to_timestamp(k)
      [] OTHER -> year_to_timestamp(k)

group_clicks(base_df, freq) ==
    LET keys == SortedKeys({group_key(freq, base_df[i].timestamp) : i \in 1..Len(base_df)})
        rowsOf(k) == {i \in 1..Len(base_df) :
                         group_key(freq, base_df[i].timestamp) = keys[k]}
        first(k) == base_df[CHOOSE i \in rowsOf(k) : \A j \in rowsOf(k) : i <= j].number
        last(k) == base_df[CHOOSE i \in rowsOf(k) : \A j \in rowsOf(k) : i >= j].number
    IN  [k \in 1..Len(keys) |->
            [period_start |-> group_timestamp(freq, keys[k]),
             clicks |-> Cents * (last(k) - (IF k > 1 THEN last(k - 1) ELSE first(k)))]]

\* each month's own last - first, the previous month's last value ignored
calculate_monthly_clicks_own_first(base_df) ==
    LET own == group_clicks(base_df, "M")
        rows(k) == {i \in 1..Len(base_df) :
                       month_to_timestamp(to_period_M(base_df[i].timestamp))
                         = own[k].period_start}
        lo(k) == CHOOSE i \in rows(k) : \A j \in rows(k) : i <= j
        hi(k) == CHOOSE i \in rows(k) : \A j \in rows(k) : i >= j
    IN  [k \in 1..Len(own) |->
            [period_start |-> own[k].period_start,
             clicks |-> Cents * (base_df[hi(k)].number - base_df[lo(k)].number)]]

calculate_monthly_clicks(base_df) ==
    group_clicks(base_df, "M")

calculate_quarterly_clicks(base_df) ==
    group_clicks(base_df, "Q")

calculate_yearly_clicks(base_df) ==
    group_clicks(base_df, "Y")

\* ----------------------------------------------------------------- inputs
Sample(max_time) == [timestamp : 0..max_time, number : 0..MaxValue]

IsTimeSorted(s) == \A i \in 1..(Len(s) - 1) : s[i].timestamp <= s[i + 1].timestamp

\* frames as read_and_preprocess_data returns them: sorted by timestamp
Frames(max_time) ==
    UNION {{s \in [1..n -> Sample(max_time)] : IsTimeSorted(s)} : n \in 0..MaxSamples}

NotCalled ==
    /\ op = "none"
    /\ period_counts = <<>>
    /\ result = <<>>
    /\ raised = "none"
    /\ previous = <<>>

\* the parts of the program that take no part in a run
ShareIdle ==
    /\ share_args = "none" /\ share_out = "none"
    /\ cover_args = "none" /\ cover_out = [called |-> FALSE, shares |-> <<>>]

RangeIdle ==
    /\ range_args = "none"
    /\ ranges = [called |-> FALSE, start |-> 0, terminated |-> FALSE, list |-> <<>>]

NotAppended ==
    ret = [called |-> FALSE, input_value |-> 0, is_successful |-> FALSE,
           is_appended |-> FALSE, date |-> 0, written |-> <<>>]

NotProcessed ==
    pvc = [called |-> FALSE, calls |-> 0, outcome |-> "none",
           append_counter |-> 0, view_count |-> 0, plotted |-> FALSE]

SheetIdle ==
    /\ sheet = <<>> /\ all_values = <<>> /\ now = 0 /\ NotAppended
    /\ sheet_df = <<>> /\ NotProcessed

TimerIdle ==
    timer = [pc |-> "idle", n |-> 0, interval_seconds |-> 0, iterations |-> 0,
             on_keypress |-> FALSE, pending |-> 0, presses |-> 0,
             short_waits |-> 0, settings |-> "cooked", old_settings |-> "none"]

Init == df \in Frames(MaxTime) /\ NotCalled /\ ShareIdle
         /\ RangeIdle /\ SheetIdle /\ TimerIdle

InitDaily ==
    df \in Frames(MaxDailyTime) /\ NotCalled /\ ShareIdle
         /\ RangeIdle /\ SheetIdle /\ TimerIdle

\* ---------------------------------------------------------------- actions
\* the caller's frame had calculate_clicks sorted it in place
frame_sorted_in_place(base_df) == SortByTimestamp(base_df)

\* the caller's frame had generate_clicks_dataframe written number.diff()
\* over its number column
frame_number_diffed(base_df) ==
    [i \in 1..Len(base_df) |->
        [timestamp |-> base_df[i].timestamp,
         number |-> generate_clicks_dataframe(base_df)[i].count]]

\* the caller's frame after calculate_clicks: generate_clicks_dataframe works
\* on base_df.copy(), and every later step on frames derived from the copy
frame_after_calculate_clicks(base_df) == base_df

\* the caller's frame after a calendar grouping: groupby, agg, shift and apply
\* build new frames and the grouping key is a temporary series
frame_after_group_clicks(base_df) == base_df

\* calculate_daily_clicks(df) = calculate_clicks(df, period_days=1, ...)
\* calculate_clicks(df) with period_days = 1
DailyCall ==
    /\ IF Len(df) = 0
       THEN /\ raised' = "IndexError"
            /\ period_counts' = <<>>
            /\ result' = <<>>
       ELSE /\ raised' = "none"
            /\ period_counts' = calculate_clicks_counts(df, 1)
            /\ result' = groupby_sum_round(calculate_clicks_counts(df, 1))
    /\ df' = frame_after_calculate_clicks(df)

CalculateDailyClicks ==
    /\ op = "none"
    /\ op' = "daily"
    /\ DailyCall
    /\ UNCHANGED <<previous, share_vars, range_vars, sheet_vars, timer_vars>>

\* a calendar grouping of an empty frame: the .dt accessor or the column
\* assignment of an empty apply() result raises, or an empty frame comes back,
\* depending on the frame's dtypes and the pandas build
CalendarCall(clicks) ==
    /\ IF Len(df) = 0
       THEN /\ raised' \in {"none", "AttributeError", "ValueError"}
            /\ result' = <<>>
       ELSE /\ raised' = "none"
            /\ result' = clicks
    /\ df' = frame_after_group_clicks(df)
    /\ UNCHANGED period_counts

CalendarClicks(name, clicks) ==
    /\ op = "none"
    /\ op' = name
    /\ CalendarCall(clicks)
    /\ UNCHANGED <<previous, share_vars, range_vars, sheet_vars, timer_vars>>

CalculateMonthlyClicks == CalendarClicks("monthly", calculate_monthly_clicks(df))

CalculateQuarterlyClicks == CalendarClicks("quarterly", calculate_quarterly_clicks(df))

CalculateYearlyClicks == CalendarClicks("yearly", calculate_yearly_clicks(df))

Next ==
    \/ CalculateDailyClicks
    \/ CalculateMonthlyClicks
    \/ CalculateQuarterlyClicks
    \/ CalculateYearlyClicks

Spec == Init /\ [][Next]_vars

NextDaily == CalculateDailyClicks

SpecDaily == InitDaily /\ [][NextDaily]_vars

NextCalendar ==
    \/ CalculateMonthlyClicks
    \/ CalculateQuarterlyClicks
    \/ CalculateYearlyClicks

SpecCalendar == Init /\ [][NextCalendar]_vars

\* frames in any row order, as a caller other than main may pass them
AnyFrames == UNION {[1..n -> Sample(MaxAnyTime)] : n \in 0..MaxSamples}

InitAnyOrder == df \in AnyFrames /\ NotCalled /\ ShareIdle
         /\ RangeIdle /\ SheetIdle /\ TimerIdle

SpecAnyOrder == InitAnyOrder /\ [][Next]_vars

\* the series of a calendar operation
calendar_clicks(name, base_df) ==
    CASE name = "monthly" -> calculate_monthly_clicks(base_df)
      [] name = "quarterly" -> calculate_quarterly_clicks(base_df)
      [] OTHER -> calculate_yearly_clicks(base_df)

\* the caller calls the same operation once more on the frame it holds; the
\* dtypes of the frame and the pandas build are those of the first call, so
\* an empty frame ends a calendar grouping the way it did before
RepeatCall ==
    /\ op # "none"
    /\ previous = <<>>
    /\ previous' = <<[result |-> result, raised |-> raised]>>
    /\ op' = op
    /\ IF op = "daily"
       THEN DailyCall
       ELSE /\ CalendarCall(calendar_clicks(op, df))
            /\ Len(df) = 0 => raised' = raised
    /\ UNCHANGED <<share_vars, range_vars, sheet_vars, timer_vars>>

InitTwice == df \in Frames(MaxTwiceTime) /\ NotCalled /\ ShareIdle
         /\ RangeIdle /\ SheetIdle /\ TimerIdle

NextTwice ==
    \/ CalculateDailyClicks
    \/ CalculateMonthlyClicks
    \/ CalculateQuarterlyClicks
    \/ CalculateYearlyClicks
    \/ RepeatCall

SpecTwice == InitTwice /\ [][NextTwice]_vars

\* ------------------------------------------------------ periods of a call
\* The calendar periods of the granularity o ("daily", "monthly",
\* "quarterly", "yearly"), numbered consecutively.
PeriodIndex(o, t) ==
    CASE o = "daily" -> t \div TicksPerDay
      [] o = "monthly" -> to_period_M(t)
      [] o = "quarterly" -> to_period_Q(t)
      [] OTHER -> dt_year(t)

PeriodStart(o, p) ==
    CASE o = "daily" -> p * TicksPerDay
      [] o = "monthly" -> month_to_timestamp(p)
      [] o = "quarterly" -> quarter_to_timestamp(p)
      [] OTHER -> year_to_timestamp(p)

PeriodEnd(o, p) == PeriodStart(o, p + 1)

\* ------------------------------------------------------------ range splitting
EngineIdle == df = <<>> /\ NotCalled

\* the fields of a Timestamp: year, month (1..12), day of the month (1..) and
\* time of day
ts_year(t) == to_period_M(t) \div MonthsPerYear

ts_month(t) == (to_period_M(t) % MonthsPerYear) + 1

ts_day(t) == ((t % TicksPerMonth) \div TicksPerDay) + 1

ts_time(t) == t % TicksPerDay

\* Timestamp(year, month, day) + time of day
timestamp_of(year, month, day, time) ==
    month_to_timestamp(year * MonthsPerYear + (month - 1))
        + (day - 1) * TicksPerDay + time

\* Timestamp.normalize(): the same date at midnight
normalize(t) == timestamp_of(ts_year(t), ts_month(t), ts_day(t), 0)

\* Timestamp.replace(month=month, day=day)
replace_month_day(t, month, day) == timestamp_of(ts_year(t), month, day, ts_time(t))

\* the first month of the quarter taken from month \div 3, not (month - 1) \div 3
quarter_start_month_from_month(month) ==
    (month \div MonthsPerQuarter) * MonthsPerQuarter + 1

\* ((ts.month - 1) // 3) * 3 + 1
quarter_start_month(month) ==
    ((month - 1) \div MonthsPerQuarter) * MonthsPerQuarter + 1

\* the members of PlotGroupRange: (slug, freq, span)
GroupRanges ==
    {[slug |-> "aylik", freq |-> "MS", span |-> 1],
     [slug |-> "ceyreklik", freq |-> "QS", span |-> 1],
     [slug |-> "yillik", freq |-> "YS", span |-> 1],
     [slug |-> "3_yillik", freq |-> "YS", span |-> 3],
     [slug |-> "5_yillik", freq |-> "YS", span |-> 5],
     [slug |-> "10_yillik", freq |-> "YS", span |-> 10]}

get_range_start(group_range, data_start) ==
    CASE group_range.freq = "MS" ->
            replace_month_day(normalize(data_start), ts_month(data_start), 1)
      [] group_range.freq = "QS" ->
            replace_month_day(normalize(data_start),
                              quarter_start_month(ts_month(data_start)), 1)
      [] OTHER -> replace_month_day(normalize(data_start), 1, 1)

\* current + pd.DateOffset(months=months): the same day and time of day,
\* months later (every month of the model has DaysPerMonth days, so no day
\* is clipped to a shorter month)
add_months(current, months) ==
    month_to_timestamp(to_period_M(current) + months) + (current % TicksPerMonth)

get_next_range_start(group_range, current) ==
    CASE group_range.freq = "MS" -> add_months(current, group_range.span)
      [] group_range.freq = "QS" ->
            add_months(current, MonthsPerQuarter * group_range.span)
      [] OTHER -> add_months(current, MonthsPerYear * group_range.span)

\* the loop entered only while current is before data_end
loop_continues_before(current, data_end) == current < data_end

\* while current <= data_end
loop_continues(current, data_end) == current <= data_end

\* the while loop of _split_into_ranges, cut after fuel iterations
RECURSIVE split_loop(_, _, _, _)
split_loop(current, data_end, group_range, fuel) ==
    IF ~loop_continues(current, data_end)
    THEN [terminated |-> TRUE, list |-> <<>>]
    ELSE IF fuel = 0
         THEN [terminated |-> FALSE, list |-> <<>>]
         ELSE LET range_end == get_next_range_start(group_range, current)
                  rest == split_loop(range_end, data_end, group_range, fuel - 1)
              IN  [terminated |-> rest.terminated,
                   list |-> <<<<current, range_end>>>> \o rest.list]

\* _split_into_ranges for ts.min() = data_start and ts.max() = data_end; a
\* loop that ends at all ends within one iteration per tick of the span
split_into_ranges(data_start, data_end, group_range) ==
    LET current == get_range_start(group_range, data_start)
        loop == split_loop(current, data_end, group_range,
                           Max(data_end - current, 0) + 1)
    IN  [called |-> TRUE, start |-> current,
         terminated |-> loop.terminated, list |-> loop.list]

\* the spans data_start..data_end: every start within a year, with an end a
\* few ticks later or a few lengths of the group range later
RangeEnds(data_start, group_range) ==
    {data_start + d : d \in 0..MaxSpanTicks}
        \cup {data_start
                + k * (get_next_range_start(group_range, data_start) - data_start) :
                    k \in 1..MaxSpanRanges}

RangeArgs ==
    UNION {{[data_start |-> t, data_end |-> e, group_range |-> g] :
                e \in RangeEnds(t, g)} : t \in 0..MaxStartTick, g \in GroupRanges}

InitRange ==
    /\ range_args \in RangeArgs
    /\ ranges = [called |-> FALSE, start |-> 0, terminated |-> FALSE, list |-> <<>>]
    /\ EngineIdle /\ ShareIdle /\ SheetIdle /\ TimerIdle

SplitIntoRanges ==
    /\ ~ranges.called
    /\ ranges' = split_into_ranges(range_args.data_start, range_args.data_end,
                                   range_args.group_range)
    /\ UNCHANGED <<range_args, engine_vars, share_vars, sheet_vars, timer_vars>>

NextRange == SplitIntoRanges

SpecRange == InitRange /\ [][NextRange]_vars

\* -------------------------------------------------------------- sheet writer
\* value_threshold, the default of append_to_sheet
value_threshold == 2

\* the cells of the worksheet as get_all_values returns them: the text of a
\* date, the text of a number, or any other text
cell_date(t) == <<"date", t>>

cell_num(v) == <<"num", v>>

cell_text == <<"text", 0>>

\* a worksheet that somebody gave the header row timestamp, number
HeaderRow == <<cell_text, cell_text>>

\* str(input_value): the text a number cell of that value reads back as
str_of(input_value) == cell_num(input_value)

\* no value counted as within the threshold of another
never_within_threshold(val1, val2) == FALSE

\* abs(float(val1) - float(val2)) <= value_threshold, False when float()
\* raises ValueError on a cell that is not a number
is_within_threshold(val1, val2) ==
    IF val1[1] = "num"
    THEN (IF val1[2] >= val2 THEN val1[2] - val2 ELSE val2 - val1[2]) <= value_threshold
    ELSE FALSE

\* the branches with the test of the row before the last taken first
update_branch_threshold_first(rows, input_value) ==
    LET n == Len(rows)
    IN  IF n >= 2 /\ is_within_threshold(rows[n - 1][2], input_value)
        THEN "within_threshold"
        ELSE IF n >= 1 /\ rows[n][2] = str_of(input_value) THEN "same_value"
             ELSE "append"

\* the branch update_sheet takes
update_branch(rows, input_value) ==
    LET n == Len(rows)
    IN  IF n >= 1 /\ rows[n][2] = str_of(input_value) THEN "same_value"
        ELSE IF n >= 2 /\ is_within_threshold(rows[n - 1][2], input_value)
             THEN "within_threshold"
             ELSE "append"

\* the timestamp written to the first row of the worksheet
row_number_first(rows) == 1

\* row_number = len(all_values): the last row
row_number(rows) == Len(rows)

\* update_sheet(sheet, all_values, input_value, current_date_str, threshold);
\* fail is the number of the worksheet write that raises (0: none does);
\* written lists the (row, column) cells that were written
update_sheet(rows, input_value, current_date, fail) ==
    LET n == row_number(rows)
        branch == update_branch(rows, input_value)
        dated == [rows EXCEPT ![n] = <<cell_date(current_date), rows[n][2]>>]
    IN  IF fail = 1
        THEN [sheet |-> rows, is_appended |-> FALSE, raised |-> TRUE,
              written |-> <<>>]
        ELSE CASE branch = "same_value" ->
                    [sheet |-> dated, is_appended |-> FALSE, raised |-> FALSE,
                     written |-> <<<<n, 1>>>>]
               [] branch = "within_threshold" ->
                    IF fail = 2
                    THEN [sheet |-> dated, is_appended |-> FALSE, raised |-> TRUE,
                          written |-> <<<<n, 1>>>>]
                    ELSE [sheet |-> [dated EXCEPT ![n] = <<dated[n][1],
                                                        cell_num(input_value)>>],
                          is_appended |-> FALSE, raised |-> FALSE,
                          written |-> <<<<n, 1>>, <<n, 2>>>>]
               [] OTHER ->
                    [sheet |-> Append(rows, <<cell_date(current_date),
                                              cell_num(input_value)>>),
                     is_appended |-> TRUE, raised |-> FALSE,
                     written |-> <<<<Len(rows) + 1, 1>>, <<Len(rows) + 1, 2>>>>]

\* a new worksheet is empty; one prepared by hand may hold the header row
InitSheet ==
    /\ sheet \in {<<>>, <<HeaderRow>>}
    /\ all_values = <<>>
    /\ now = 0
    /\ NotAppended
    /\ sheet_df = <<>> /\ NotProcessed
    /\ EngineIdle /\ ShareIdle /\ RangeIdle /\ TimerIdle

\* append_to_sheet(sheet, input_value): the clock is read, the rows are read
\* (the read may raise), update_sheet writes (a write may raise), and every
\* exception is turned into is_successful = False
append_to_sheet(rows, read_before, input_value, current_date, read_fails, fail) ==
    IF read_fails
    THEN [sheet |-> rows, all_values |-> read_before,
          ret |-> [called |-> TRUE, input_value |-> input_value,
                   is_successful |-> FALSE, is_appended |-> FALSE,
                   date |-> current_date, written |-> <<>>]]
    ELSE LET done == update_sheet(rows, input_value, current_date, fail)
         IN  [sheet |-> done.sheet, all_values |-> rows,
              ret |-> [called |-> TRUE, input_value |-> input_value,
                       is_successful |-> ~done.raised,
                       is_appended |-> done.is_appended,
                       date |-> current_date, written |-> done.written]]

AppendToSheet ==
    /\ Len(sheet) < MaxRows
    /\ \E input_value \in 0..MaxSheetValue, current_date \in now..Min(now + 1, MaxClock),
          read_fails \in BOOLEAN, fail \in 0..2 :
        /\ read_fails => fail = 0
        /\ LET call == append_to_sheet(sheet, all_values, input_value,
                                       current_date, read_fails, fail)
           IN  /\ now' = current_date
               /\ sheet' = call.sheet
               /\ all_values' = call.all_values
               /\ ret' = call.ret
    /\ UNCHANGED <<sheet_df, pvc, engine_vars, share_vars, range_vars, timer_vars>>

NextSheet == AppendToSheet

SpecSheet == InitSheet /\ [][NextSheet]_vars

\* ----------------------------------------------- the frame beside the sheet
\* a cell that holds a timestamp and a cell that holds a number
notna(row) == row.timestamp[1] = "date" /\ row.number[1] = "num"

\* read_and_preprocess_data(sheet): the header row is taken off, the rows
\* get the labels 0, 1, ..., to_numeric and to_datetime turn every cell they
\* cannot read into NaN/NaT, dropna takes those rows out and sort_values
\* orders the rest by timestamp; the rows keep their labels
read_and_preprocess_data(data) ==
    IF data = <<>> THEN <<>>
    ELSE LET body == IF data[1] = HeaderRow THEN Tail(data) ELSE data
             labelled == [i \in 1..Len(body) |->
                             [label |-> i - 1, timestamp |-> body[i][1],
                              number |-> body[i][2]]]
             kept == SelectSeq(labelled, notna)
             parsed == [i \in 1..Len(kept) |->
                           [label |-> kept[i].label,
                            timestamp |-> kept[i].timestamp[2],
                            number |-> kept[i].number[2]]]
         IN  SortByTimestamp(parsed)

\* df.loc[label] = df_tuple: the row of that label is overwritten where it
\* is, and a row of that label is added at the end when there is none
set_loc(rows, label, df_tuple) ==
    IF \E i \in 1..Len(rows) : rows[i].label = label
    THEN [i \in 1..Len(rows) |->
             IF rows[i].label = label
             THEN [label |-> label, timestamp |-> df_tuple[1], number |-> df_tuple[2]]
             ELSE rows[i]]
    ELSE Append(rows, [label |-> label, timestamp |-> df_tuple[1],
                       number |-> df_tuple[2]])

\* a call that counts every successful write as an appended row
append_counter_always(is_appended) == 1

\* append_counter of process_view_count
append_counter_of(is_appended) == IF is_appended THEN 1 ELSE 0

\* the frame after a successful append_to_sheet
frame_after_write(rows, is_appended, df_tuple) ==
    IF is_appended
    THEN set_loc(rows, Len(rows), df_tuple)
    ELSE set_loc(rows, Len(rows) - 1, df_tuple)

\* what get_number_from_url gives: no number (the request failed or the
\* page shows none), a text that convert_to_int cannot read ("K", "1.2.3")
\* or the text of a number
Fetched == {"failed", "unreadable", "number"}

\* process_view_count(camo_url, sheet, df, value_threshold); plot_all_graphs
\* writes the image files and returns or raises
process_view_count(rows, read_before, ret_before, frame_rows, calls, inputs) ==
    LET fetched == inputs.fetched
        view_count == inputs.view_count
        current_date == inputs.current_date
        read_fails == inputs.read_fails
        fail == inputs.fail
        plot_raises == inputs.plot_raises
        call == append_to_sheet(rows, read_before, view_count, current_date,
                                read_fails, fail)
        none == [called |-> TRUE, calls |-> calls + 1, outcome |-> "none",
                 append_counter |-> 0, view_count |-> 0, plotted |-> FALSE]
    IN  CASE fetched = "failed" ->
               [sheet |-> rows, all_values |-> read_before, ret |-> ret_before,
                sheet_df |-> frame_rows,
                pvc |-> [none EXCEPT !.outcome = "fetch_failed"]]
          [] fetched = "unreadable" ->
               [sheet |-> rows, all_values |-> read_before, ret |-> ret_before,
                sheet_df |-> frame_rows,
                pvc |-> [none EXCEPT !.outcome = "convert_raised"]]
          [] OTHER ->
               IF ~call.ret.is_successful
               THEN [sheet |-> call.sheet, all_values |-> call.all_values,
                     ret |-> call.ret, sheet_df |-> frame_rows,
                     pvc |-> [none EXCEPT !.outcome = "write_failed"]]
               ELSE [sheet |-> call.sheet, all_values |-> call.all_values,
                     ret |-> call.ret,
                     sheet_df |-> frame_after_write(frame_rows, call.ret.is_appended,
                                                    <<current_date, view_count>>),
                     pvc |-> [called |-> TRUE, calls |-> calls + 1,
                              outcome |-> IF plot_raises THEN "plot_raised"
                                          ELSE "returned",
                              append_counter |->
                                  append_counter_of(call.ret.is_appended),
                              view_count |-> view_count,
                              plotted |-> TRUE]]

\* the rows somebody else may have left in the worksheet: cells that read
\* as a timestamp or a number and cells that do not
PreRows ==
    ({cell_date(t) : t \in 0..MaxPreTime} \cup {cell_text})
        \X ({cell_num(v) : v \in 0..MaxPreValue} \cup {cell_text})

PreSheets ==
    LET body == UNION {[1..n -> PreRows] : n \in 0..MaxPreRows}
    IN  body \cup {<<HeaderRow>> \o b : b \in body}

\* the latest timestamp of the worksheet: the clock is not before it
LatestDate(rows) ==
    LET dates == {0} \cup {rows[i][1][2] :
                              i \in {j \in 1..Len(rows) : rows[j][1][1] = "date"}}
    IN  CHOOSE t \in dates : \A u \in dates : u <= t

InitMirror ==
    /\ sheet \in PreSheets
    /\ all_values = <<>>
    /\ now = LatestDate(sheet)
    /\ NotAppended
    /\ sheet_df = read_and_preprocess_data(sheet)
    /\ NotProcessed
    /\ EngineIdle /\ ShareIdle /\ RangeIdle /\ TimerIdle

ProcessViewCount ==
    /\ pvc.calls < MaxCalls
    /\ \E fetched \in Fetched, view_count \in 0..MaxSheetValue,
          current_date \in now..Min(now + 1, MaxClock),
          read_fails \in BOOLEAN, fail \in 0..2, plot_raises \in BOOLEAN :
        /\ fetched # "number" => view_count = 0 /\ current_date = now /\ ~read_fails
        /\ read_fails => fail = 0
        /\ (fetched # "number" \/ read_fails \/ fail # 0) => ~plot_raises
        /\ fetched # "number" => fail = 0
        /\ LET done == process_view_count(sheet, all_values, ret, sheet_df, pvc.calls,
                           [fetched |-> fetched, view_count |-> view_count,
                            current_date |-> current_date, read_fails |-> read_fails,
                            fail |-> fail, plot_raises |-> plot_raises])
           IN  /\ now' = IF fetched = "number" THEN current_date ELSE now
               /\ sheet' = done.sheet
               /\ all_values' = done.all_values
               /\ ret' = done.ret
               /\ sheet_df' = done.sheet_df
               /\ pvc' = done.pvc
    /\ UNCHANGED <<engine_vars, share_vars, range_vars, timer_vars>>

NextMirror == ProcessViewCount

SpecMirror == InitMirror /\ [][NextMirror]_vars

\* the program started on a worksheet it has just created
InitProcess ==
    /\ sheet \in {<<>>, <<HeaderRow>>}
    /\ all_values = <<>>
    /\ now = 0
    /\ NotAppended
    /\ sheet_df = read_and_preprocess_data(sheet)
    /\ NotProcessed
    /\ EngineIdle /\ ShareIdle /\ RangeIdle /\ TimerIdle

NextProcess == ProcessViewCount

SpecProcess == InitProcess /\ [][NextProcess]_vars

\* ------------------------------------------------------------ countdown timer
\* the terminal settings a countdown may find
Settings == {"cooked", "noecho"}

\* the ways a call of countdown_timer ends: it returns, the callback raises,
\* Ctrl-C raises KeyboardInterrupt, or tcgetattr raises because stdin is no
\* terminal
Finished == {"returned", "callback_raised", "interrupted", "not_a_tty"}

\* a countdown that never lowers the remaining seconds
interval_seconds_kept(interval_seconds) == interval_seconds

\* interval_seconds -= 1
interval_seconds_after(interval_seconds) == interval_seconds - 1

\* settings put back only when the loop ran to its end
restore_on_return_only(exit, old_settings, settings) ==
    IF exit = "returned" THEN old_settings ELSE settings

\* finally: termios.tcsetattr(sys.stdin, termios.TCSADRAIN, old_settings)
finally_settings(exit, old_settings, settings) == old_settings

\* select.select([sys.stdin], [], [], 1.0): stdin is ready at once when a
\* character is waiting, and after the full second it is not
select_ready(pending) == pending > 0

InitTimer ==
    /\ timer \in [pc : {"idle"}, n : {0}, interval_seconds : {0}, iterations : {0},
                  on_keypress : {FALSE}, pending : {0}, presses : {0},
                  short_waits : {0}, settings : Settings, old_settings : {"none"}]
    /\ EngineIdle /\ ShareIdle /\ RangeIdle /\ SheetIdle

\* countdown_timer(interval_seconds, on_keypress) up to the loop: the
\* settings are saved and the terminal is put into cbreak mode
CallCountdownTimer ==
    /\ timer.pc = "idle"
    /\ \E n \in 0..MaxInterval, on_keypress \in BOOLEAN, is_tty \in BOOLEAN :
        timer' = IF is_tty
                 THEN [timer EXCEPT !.pc = "loop", !.n = n, !.interval_seconds = n,
                                    !.on_keypress = on_keypress,
                                    !.old_settings = timer.settings,
                                    !.settings = "cbreak"]
                 ELSE [timer EXCEPT !.pc = "not_a_tty", !.n = n,
                                    !.interval_seconds = n,
                                    !.on_keypress = on_keypress]
    /\ UNCHANGED <<engine_vars, share_vars, range_vars, sheet_vars>>

\* a key is pressed: its character waits on stdin
KeyPress ==
    /\ timer.pc \in {"idle", "loop"}
    /\ timer.presses < MaxKeys
    /\ timer' = [timer EXCEPT !.pending = @ + 1, !.presses = @ + 1]
    /\ UNCHANGED <<engine_vars, share_vars, range_vars, sheet_vars>>

\* one pass of the while loop: the wait of up to a second, the read of the
\* key and the callback when there is one, and the decrement; Ctrl-C or a
\* raising callback leave through the finally clause
Iteration ==
    /\ timer.pc = "loop"
    /\ timer.interval_seconds > 0
    /\ timer.iterations <= MaxInterval
    /\ \E interrupt \in BOOLEAN, callback_raises \in BOOLEAN :
        LET ready == select_ready(timer.pending)
            handled == ready /\ timer.on_keypress
        IN  /\ (interrupt \/ ~handled) => ~callback_raises
            /\ timer' =
                 IF interrupt
                 THEN [timer EXCEPT !.pc = "interrupted",
                                    !.settings = finally_settings("interrupted",
                                                     timer.old_settings, @)]
                 ELSE IF callback_raises
                 THEN [timer EXCEPT !.pc = "callback_raised",
                                    !.pending = @ - 1,
                                    !.short_waits = @ + 1,
                                    !.settings = finally_settings("callback_raised",
                                                     timer.old_settings, @)]
                 ELSE [timer EXCEPT !.pending = IF handled THEN @ - 1 ELSE @,
                                    !.short_waits = IF ready THEN @ + 1 ELSE @,
                                    !.interval_seconds = interval_seconds_after(@),
                                    !.iterations = @ + 1]
    /\ UNCHANGED <<engine_vars, share_vars, range_vars, sheet_vars>>

\* the loop condition fails: the cursor is moved up and the finally clause
\* puts the settings back
LoopExit ==
    /\ timer.pc = "loop"
    /\ timer.interval_seconds <= 0
    /\ timer' = [timer EXCEPT !.pc = "returned",
                              !.settings = finally_settings("returned",
                                               timer.old_settings, @)]
    /\ UNCHANGED <<engine_vars, share_vars, range_vars, sheet_vars>>

NextTimer == CallCountdownTimer \/ KeyPress \/ Iteration \/ LoopExit

SpecTimer == InitTimer /\ [][NextTimer]_vars

\* select returns after a second at the latest and the statements of the
\* loop take no unbounded time, so a pass that can be made is made
SpecTimerFair == SpecTimer /\ WF_vars(Iteration) /\ WF_vars(LoopExit)

\* ------------------------------------------- one pair of samples, one window
\* the second row of the frame of two samples (time_a, value_a) and
\* (time_b, value_b) as calculate_interval_durations leaves it:
\* count = number.diff(), prev_timestamp = timestamp.shift(1)
pair_row(args) ==
    [timestamp |-> args.time_b,
     count |-> args.value_b - args.value_a,
     prev_timestamp |-> args.time_a,
     interval_duration |-> args.time_b - args.time_a]

\* two samples in time order and a window [window_start, window_end)
ShareArgs ==
    {a \in [value_a : 0..MaxValue, value_b : 0..MaxValue,
            time_a : 0..MaxShareTime, time_b : 0..MaxShareTime,
            window_start : 0..MaxShareTime, window_end : 0..MaxShareTime] :
        a.time_a <= a.time_b /\ a.window_start < a.window_end}

InitShare ==
    /\ share_args \in ShareArgs
    /\ share_out = "none"
    /\ cover_args = "none" /\ cover_out = [called |-> FALSE, shares |-> <<>>]
    /\ EngineIdle /\ RangeIdle /\ SheetIdle /\ TimerIdle

\* process_multiple_periods(row, [window_start, window_end], column_name):
\* the one allocation it returns
ProcessMultiplePeriods ==
    /\ share_out = "none"
    /\ share_out' = process_multiple_periods(
                        pair_row(share_args),
                        <<share_args.window_start, share_args.window_end>>)[1].clicks
    /\ UNCHANGED <<share_args, cover_args, cover_out>>
    /\ UNCHANGED <<engine_vars, range_vars, sheet_vars, timer_vars>>

NextShare == ProcessMultiplePeriods

SpecShare == InitShare /\ [][NextShare]_vars

\* ------------------------------------ one pair of samples, a list of windows
\* the increasing lists of two or more period starts
StartLists ==
    {SortedKeys(starts) : starts \in {x \in SUBSET (0..MaxCoverTime) : Cardinality(x) >= 2}}

\* two samples in time order and a list of period starts whose windows
\* reach from time_a or before to time_b or after
CoverArgs ==
    {a \in [value_a : 0..MaxValue, value_b : 0..MaxValue,
            time_a : 0..MaxCoverTime, time_b : 0..MaxCoverTime,
            period_starts : StartLists] :
        /\ a.time_a <= a.time_b
        /\ a.period_starts[1] <= a.time_a
        /\ a.time_b <= a.period_starts[Len(a.period_starts)]}

InitCover ==
    /\ cover_args \in CoverArgs
    /\ cover_out = [called |-> FALSE, shares |-> <<>>]
    /\ share_args = "none" /\ share_out = "none"
    /\ EngineIdle /\ RangeIdle /\ SheetIdle /\ TimerIdle

\* process_multiple_periods(row, period_starts, column_name): the
\* allocations of the windows, in the order of the list
ProcessCover ==
    /\ ~cover_out.called
    /\ cover_out' =
         LET counts == process_multiple_periods(pair_row(cover_args),
                                                cover_args.period_starts)
         IN  [called |-> TRUE,
              shares |-> [i \in 1..Len(counts) |-> counts[i].clicks]]
    /\ UNCHANGED <<share_args, share_out, cover_args>>
    /\ UNCHANGED <<engine_vars, range_vars, sheet_vars, timer_vars>>

NextCover == ProcessCover

SpecCover == InitCover /\ [][NextCover]_vars

Called == op # "none"

Returned == op # "none" /\ raised = "none"

FirstSample == df[1]

LastSample == df[Len(df)]

\* the periods from the first sample's to the last sample's
FullSpan(o) ==
    PeriodIndex(o, FirstSample.timestamp)..PeriodIndex(o, LastSample.timestamp)

RowsIn(o, p) == {i \in 1..Len(df) : PeriodIndex(o, df[i].timestamp) = p}

HasData(o, p) == RowsIn(o, p) # {}

FirstIn(o, p) == df[CHOOSE i \in RowsIn(o, p) : \A j \in RowsIn(o, p) : i <= j]

LastIn(o, p) == df[CHOOSE i \in RowsIn(o, p) : \A j \in RowsIn(o, p) : i >= j]

PrevPeriods(o, p) == {q \in FullSpan(o) : q < p /\ HasData(o, q)}

NextPeriods(o, p) == {q \in FullSpan(o) : q > p /\ HasData(o, q)}

PrevWithData(o, p) == CHOOSE q \in PrevPeriods(o, p) : \A r \in PrevPeriods(o, p) : r <= q

NextWithData(o, p) == CHOOSE q \in NextPeriods(o, p) : \A r \in NextPeriods(o, p) : r >= q

\* the rows of the returned frame whose index is the start of period p
EntriesOf(p) == {k \in 1..Len(result) : result[k].period_start = PeriodStart(op, p)}

RECURSIVE SeriesSum(_, _)
SeriesSum(r, k) == IF k > Len(r) THEN 0 ELSE r[k].clicks + SeriesSum(r, k + 1)

\* _calculate_boundary_share: the part of value_b - value_a that falls in
\* [window_start, window_end) when the counter grows linearly from time_a
\* to time_b; 0 for a delta or a duration that is not positive.
boundary_share(value_a, value_b, time_a, time_b, window_start, window_end) ==
    LET delta == value_b - value_a
        total_duration == time_b - time_a
        o_start == Max(time_a, window_start)
        o_end == Min(time_b, window_end)
    IN  IF total_duration <= 0 \/ delta <= 0 THEN <<0, 1>>
        ELSE IF o_end <= o_start THEN <<0, 1>>
        ELSE <<delta * (o_end - o_start), total_duration>>

\* ------------------------------------------------------------------ claims
TwoOrMore == Len(df) >= 2

Delta == LastSample.number - FirstSample.number

\* C1: at day granularity, for a time-sorted frame of at least 2 samples,
\* the daily increments sum to value[last] - value[first].
C1_DailyConservation ==
    (op = "daily" /\ raised = "none" /\ TwoOrMore)
        => SeriesSum(result, 1) = Cents * Delta

\* C2: at month, quarter and year granularity, for a time-sorted frame of at
\* least 2 samples, the increments sum to last.value - first.value.
C2_CalendarConservation ==
    (op \in {"monthly", "quarterly", "yearly"} /\ raised = "none" /\ TwoOrMore)
        => SeriesSum(result, 1) = Cents * Delta

\* a calendar call on samples of several periods and a counter that moved
\* down and up again
C2_Witness ==
    /\ op \in {"monthly", "quarterly", "yearly"}
    /\ Len(df) = 3
    /\ Len(result) >= 2
    /\ df[2].number < df[1].number
    /\ df[3].number > df[1].number

\* C3: every increment of the returned series is non-negative, also when the
\* counter locally decreases.
C3_NonNegative ==
    Returned => \A k \in 1..Len(result) : result[k].clicks >= 0

\* C4: the returned series has exactly one entry for every calendar period
\* from the first sample's period to the last sample's period, for every
\* granularity.
C4_GapFree ==
    (Returned /\ Len(df) >= 1)
        => /\ \A p \in FullSpan(op) : Cardinality(EntriesOf(p)) = 1
           /\ Len(result) = Cardinality(FullSpan(op))

DayOf(t) == t \div TicksPerDay

\* the ticks of [time_a, time_b) that lie in day d
TicksInDay(time_a, time_b, d) ==
    Cardinality({u \in time_a..(time_b - 1) : DayOf(u) = d})

\* the number of entries that the rows before row i put in period_counts:
\* one per day from the day of the row's previous sample to the day of its own
RECURSIVE EntriesBefore(_)
EntriesBefore(i) ==
    IF i <= 1 THEN 0
    ELSE EntriesBefore(i - 1)
         + (DayOf(df[i - 1].timestamp)
            - DayOf(df[IF i = 2 THEN 1 ELSE i - 2].timestamp) + 1)

CrossesMidnight(i) == DayOf(df[i - 1].timestamp) < DayOf(df[i].timestamp)

\* C5: at day granularity the delta of two consecutive samples of different
\* days is split between the days in proportion to the time of the
\* inter-sample interval in each day: share = delta * overlap / total.
C5_DailyProportionalSplit ==
    (op = "daily" /\ raised = "none")
        => \A i \in 2..Len(df) :
            CrossesMidnight(i) =>
                \A d \in DayOf(df[i - 1].timestamp)..DayOf(df[i].timestamp) :
                    LET k == EntriesBefore(i) + (d - DayOf(df[i - 1].timestamp)) + 1
                        share == period_counts[k].clicks
                        delta == df[i].number - df[i - 1].number
                        total == df[i].timestamp - df[i - 1].timestamp
                    IN  /\ k \in 1..Len(period_counts)
                        /\ period_counts[k].period_start = d * TicksPerDay
                        /\ share[1] * total
                             = delta * TicksInDay(df[i - 1].timestamp,
                                                  df[i].timestamp, d) * share[2]

\* a daily call on a pair that starts in the middle of a day, ends in the
\* middle of a later day and carries a positive delta
C5_Witness ==
    /\ op = "daily"
    /\ raised = "none"
    /\ \E i \in 2..Len(df) :
        /\ DayOf(df[i - 1].timestamp) + 1 < DayOf(df[i].timestamp)
        /\ df[i - 1].timestamp % TicksPerDay # 0
        /\ df[i].timestamp % TicksPerDay # 0
        /\ df[i].number > df[i - 1].number

\* C6: at month and year granularity the delta between the last sample of one
\* period and the first sample of the next period is split between the two
\* periods in proportion to the time of the interval in each (an interval
\* that straddles the boundary evenly gives each period half of the delta).
C6_CalendarBoundarySplit ==
    (/\ op \in {"monthly", "yearly"}
     /\ raised = "none"
     /\ Len(df) = 2
     /\ PeriodIndex(op, df[2].timestamp) = PeriodIndex(op, df[1].timestamp) + 1
     /\ df[2].number > df[1].number)
        => LET boundary == PeriodStart(op, PeriodIndex(op, df[2].timestamp))
               total == df[2].timestamp - df[1].timestamp
           IN  /\ Len(result) = 2
               /\ result[1].clicks * total
                    = Cents * Delta * (boundary - df[1].timestamp)
               /\ result[2].clicks * total
                    = Cents * Delta * (df[2].timestamp - boundary)

\* the share of the delta from the previous period-with-data's last sample
\* to period p's first sample that falls in p, 0 without such a period
LeftShare(o, p) ==
    IF PrevPeriods(o, p) = {} THEN <<0, 1>>
    ELSE LET a == LastIn(o, PrevWithData(o, p))
             b == FirstIn(o, p)
         IN  boundary_share(a.number, b.number, a.timestamp, b.timestamp,
                            PeriodStart(o, p), PeriodEnd(o, p))

\* the share of the delta from period p's last sample to the next
\* period-with-data's first sample that falls in p, 0 without such a period
RightShare(o, p) ==
    IF NextPeriods(o, p) = {} THEN <<0, 1>>
    ELSE LET a == LastIn(o, p)
             b == FirstIn(o, NextWithData(o, p))
         IN  boundary_share(a.number, b.number, a.timestamp, b.timestamp,
                            PeriodStart(o, p), PeriodEnd(o, p))

InternalDelta(o, p) == Max(0, LastIn(o, p).number - FirstIn(o, p).number)

\* C7: the increment of a period that contains samples is
\* max(0, last_in_period - first_in_period) plus the left and the right
\* boundary share (compared at the two decimals the series carries).
C7_PeriodWithData ==
    (Returned /\ TwoOrMore)
        => \A p \in FullSpan(op) :
            HasData(op, p) =>
                \E k \in EntriesOf(p) :
                    result[k].clicks
                      = Round2(FracAdd(<<InternalDelta(op, p), 1>>,
                                       FracAdd(LeftShare(op, p), RightShare(op, p))))

\* the share, in the empty period p, of the delta across the gap around it
GapShare(o, p) ==
    LET a == LastIn(o, PrevWithData(o, p))
        b == FirstIn(o, NextWithData(o, p))
    IN  boundary_share(a.number, b.number, a.timestamp, b.timestamp,
                       PeriodStart(o, p), PeriodEnd(o, p))

\* C8: the increment of a period without samples that lies between two
\* periods with data is the boundary share, in that period, of the delta
\* from the preceding period's last sample to the following period's first
\* sample (compared at the two decimals the series carries).
C8_EmptyPeriodInterpolated ==
    (Returned /\ TwoOrMore)
        => \A p \in FullSpan(op) :
            (~HasData(op, p) /\ PrevPeriods(op, p) # {} /\ NextPeriods(op, p) # {})
                => \E k \in EntriesOf(p) :
                      result[k].clicks = Round2(GapShare(op, p))

\* C9: with fewer than 2 samples every period-click operation returns an
\* empty series and raises no error.
C9_FewerThanTwoSamples ==
    (Called /\ Len(df) < 2) => (raised = "none" /\ result = <<>>)

\* C10: when all samples (at least 2) fall in a single period the series has
\* exactly one entry, keyed by the period's start, of value
\* last.value - first.value.
C10_SinglePeriod ==
    (/\ Returned
     /\ TwoOrMore
     /\ PeriodIndex(op, FirstSample.timestamp) = PeriodIndex(op, LastSample.timestamp))
        => /\ Len(result) = 1
           /\ result[1].period_start
                = PeriodStart(op, PeriodIndex(op, FirstSample.timestamp))
           /\ result[1].clicks = Cents * Delta

\* ------------------------------------------------------------ boundary share
\* the ticks of [time_a, time_b) that lie in [window_start, window_end)
TicksInWindow(a) ==
    Cardinality({u \in a.time_a..(a.time_b - 1) :
                    a.window_start <= u /\ u < a.window_end})

Allocated == share_out # "none"

\* C11: for value_b > value_a, time_b > time_a and a window that overlaps
\* [time_a, time_b), the share of the window is
\* delta * overlap_duration / total_duration, and it is the full delta when
\* [time_a, time_b) lies inside the window.
C11_ShareFormula ==
    LET a == share_args
        delta == a.value_b - a.value_a
        total == a.time_b - a.time_a
    IN  (Allocated /\ delta > 0 /\ total > 0 /\ TicksInWindow(a) > 0)
            => /\ share_out[2] # 0
               /\ share_out[1] * total = delta * TicksInWindow(a) * share_out[2]
               /\ (a.window_start <= a.time_a /\ a.time_b <= a.window_end)
                    => share_out[1] = delta * share_out[2]

\* a positive delta over an interval that starts before the window and ends
\* after it
C11_Witness ==
    /\ Allocated
    /\ share_args.value_b > share_args.value_a
    /\ share_args.time_a < share_args.window_start
    /\ share_args.window_end < share_args.time_b
    /\ share_out[1] > 0

\* C12: the share of a window that does not intersect [time_a, time_b) is
\* exactly 0, for every delta.
C12_NoOverlapZero ==
    (Allocated /\ TicksInWindow(share_args) = 0) => share_out[1] = 0

\* the entries that row i of the sorted frame put in period_counts
RowEntries(i) == (EntriesBefore(i) + 1)..EntriesBefore(i + 1)

\* C13: a pair of consecutive samples with value_b <= value_a contributes
\* exactly 0 to every period it spans.
C13_NonPositivePairZero ==
    (op = "daily" /\ raised = "none")
        => \A i \in 2..Len(df) :
            df[i].number <= df[i - 1].number
                => \A k \in RowEntries(i) : period_counts[k].clicks[1] = 0

\* C14: two consecutive samples with identical timestamps contribute zero to
\* every period and cause no division by zero, whatever their values are.
C14_ZeroDurationZero ==
    (op = "daily" /\ \E i \in 2..Len(df) : df[i].timestamp = df[i - 1].timestamp)
        => /\ raised = "none"
           /\ \A i \in 2..Len(df) :
                df[i].timestamp = df[i - 1].timestamp
                    => /\ RowEntries(i) # {}
                       /\ \A k \in RowEntries(i) :
                            /\ k \in 1..Len(period_counts)
                            /\ period_counts[k].period_start
                                 = floor_day(df[i].timestamp)
                            /\ period_counts[k].clicks[2] # 0
                            /\ period_counts[k].clicks[1] = 0

\* a daily call on a frame with two samples of one instant and different
\* values, in the middle of a day
C14_Witness ==
    /\ op = "daily"
    /\ raised = "none"
    /\ \E i \in 2..Len(df) :
        /\ df[i].timestamp = df[i - 1].timestamp
        /\ df[i].timestamp % TicksPerDay # 0
        /\ df[i].number # df[i - 1].number

\* ------------------------------------------------------------------ ordering
\* the series that operation o computes from a frame
SeriesOf(o, frame) ==
    CASE o = "daily" -> groupby_sum_round(calculate_clicks_counts(frame, 1))
      [] o = "monthly" -> calculate_monthly_clicks(frame)
      [] o = "quarterly" -> calculate_quarterly_clicks(frame)
      [] OTHER -> calculate_yearly_clicks(frame)

DistinctTimestamps ==
    \A i, j \in 1..Len(df) : i # j => df[i].timestamp # df[j].timestamp

\* C15: the samples are sorted by time before the deltas are computed: the
\* series computed from any ordering of a set of samples equals the series
\* computed from its time-sorted ordering.
C15_OrderIndependent ==
    (Returned /\ DistinctTimestamps) => result = SeriesOf(op, SortByTimestamp(df))

C18_RangeStartAligned ==
    ranges.called
        => LET g == range_args.group_range
               start == ranges.start
               month == (to_period_M(start) % MonthsPerYear) + 1
           IN  /\ get_range_start(g, start) = start
               /\ start <= range_args.data_start
               /\ start % TicksPerDay = 0
               /\ start % TicksPerMonth = 0
               /\ g.freq = "QS" => month \in {1, 4, 7, 10}
               /\ g.freq = "YS" => month = 1

\* the start of the quarterly ranges of a span that begins in the last month
\* of a quarter, after the first day, after midnight
C18_Witness ==
    /\ ranges.called
    /\ range_args.group_range.freq = "QS"
    /\ ts_month(range_args.data_start) \in {3, 6, 9, 12}
    /\ ts_day(range_args.data_start) > 1
    /\ ts_time(range_args.data_start) > 0
    /\ ranges.start < range_args.data_start

\* the filter of the claim: start-inclusive, end-exclusive
InRange(t, r) == r[1] <= t /\ t < r[2]

\* the sample instants that decide the tiling: both ends of the data and the
\* ticks on either side of every range boundary inside the data span
BoundaryTicks ==
    {t \in {range_args.data_start, range_args.data_end}
            \cup UNION {{ranges.list[i][1] - 1, ranges.list[i][1]} :
                            i \in 1..Len(ranges.list)} :
        range_args.data_start <= t /\ t <= range_args.data_end}

\* C19: for every data_start <= data_end and every group range,
\* _split_into_ranges terminates with a finite list of half-open ranges, each
\* ending strictly after its start where the next one starts, the first
\* containing data_start and the last data_end, so that every sample falls in
\* exactly one range.
C19_RangesTile ==
    ranges.called
        => LET list == ranges.list
           IN  /\ ranges.terminated
               /\ Len(list) >= 1
               /\ \A i \in 1..Len(list) : list[i][1] < list[i][2]
               /\ \A i \in 1..(Len(list) - 1) : list[i][2] = list[i + 1][1]
               /\ InRange(range_args.data_start, list[1])
               /\ InRange(range_args.data_end, list[Len(list)])
               /\ \A t \in BoundaryTicks :
                    Cardinality({i \in 1..Len(list) : InRange(t, list[i])}) = 1

\* two ranges or more of several years each, the data ending on the very
\* instant a range starts
C19_Witness ==
    /\ ranges.called
    /\ range_args.group_range.span > 1
    /\ Len(ranges.list) >= 2
    /\ ranges.list[Len(ranges.list)][1] = range_args.data_end

\* -------------------------------------------------------------- sheet writer
Succeeded == ret.called /\ ret.is_successful

\* the row [timestamp, value] of the call
NewRow == <<cell_date(ret.date), cell_num(ret.input_value)>>

SameValueAsLast ==
    Len(all_values) >= 1 /\ all_values[Len(all_values)][2] = cell_num(ret.input_value)

\* the last row keeps its place and its value and takes the timestamp of the
\* call; no row is added
UpdatedInPlace ==
    /\ Len(sheet) = Len(all_values)
    /\ sheet[Len(sheet)] = NewRow
    /\ \A i \in 1..(Len(sheet) - 1) : sheet[i] = all_values[i]

AppendedRow == sheet = Append(all_values, NewRow)

\* the row before the last holds a number within value_threshold of the input
NearSecondLast ==
    /\ Len(all_values) >= 2
    /\ all_values[Len(all_values) - 1][2][1] = "num"
    /\ all_values[Len(all_values) - 1][2][2] - ret.input_value <= value_threshold
    /\ ret.input_value - all_values[Len(all_values) - 1][2][2] <= value_threshold

RowsBeforeLast == 1..(Len(all_values) - 1)

\* C22: update_sheet returns True exactly when it appended one row (the row
\* count grew by one) and False exactly when the row count is as it was; in
\* every branch the rows before the last existing row are left as they were,
\* and in the equal-value branch only the timestamp cell of the last row is
\* written.
C22_ReturnTellsRowCount ==
    /\ Succeeded =>
         /\ ret.is_appended <=> Len(sheet) = Len(all_values) + 1
         /\ ~ret.is_appended <=> Len(sheet) = Len(all_values)
         /\ SameValueAsLast =>
              /\ ret.written = <<<<Len(all_values), 1>>>>
              /\ sheet[Len(all_values)][2] = all_values[Len(all_values)][2]
    /\ ret.called => \A i \in RowsBeforeLast : sheet[i] = all_values[i]

\* a call on two or more rows with the value of the last row: the call
\* wrote the timestamp of the last row and nothing else
C22_Witness ==
    /\ Succeeded
    /\ SameValueAsLast
    /\ Len(all_values) >= 2
    /\ ~ret.is_appended
    /\ sheet # all_values
    /\ NearSecondLast

\* the rows whose first cell holds a timestamp
DatedRows == {i \in 1..Len(sheet) : sheet[i][1][1] = "date"}

\* C23: after any sequence of append_to_sheet calls on a worksheet that had
\* no data rows, with a clock that never goes back, the timestamps of
\* column 1 never decrease from one row to the next.
C23_TimestampsNonDecreasing ==
    \A i, j \in DatedRows : i < j => sheet[i][1][2] <= sheet[j][1][2]

\* calls at different times left two or more rows: the last call rewrote
\* the last row in place at a later time than an earlier row's
C23_Witness ==
    /\ Succeeded
    /\ ~ret.is_appended
    /\ Cardinality(DatedRows) >= 2
    /\ \E i \in DatedRows : sheet[i][1][2] < sheet[Len(sheet)][1][2]
    /\ sheet[Len(sheet)][1] = cell_date(ret.date)
    /\ all_values[Len(all_values)][1] # cell_date(ret.date)

\* ------------------------------------------------- the frame beside the sheet
ProcessReturned == pvc.called /\ pvc.outcome \in {"fetch_failed", "write_failed", "returned"}

\* C21: a call of process_view_count that returns gives a counter n that is
\* 0 or 1 and is 1 exactly when the call appended a row to the worksheet;
\* when fetching the counter or writing the worksheet failed it gives
\* (df, 0, 0), the frame is as it was and nothing was plotted.
C21_CounterTellsAppend ==
    [][(pvc'.called /\ pvc'.outcome \in {"fetch_failed", "write_failed", "returned"})
        => /\ pvc'.append_counter \in {0, 1}
           /\ (pvc'.append_counter = 1) <=> (Len(sheet') = Len(sheet) + 1)
           /\ pvc'.outcome \in {"fetch_failed", "write_failed"}
                => /\ pvc'.append_counter = 0
                   /\ pvc'.view_count = 0
                   /\ sheet_df' = sheet_df
                   /\ ~pvc'.plotted]_vars

\* a write of the worksheet failed after the frame had got a row, and
\* process_view_count returned
C21_Witness ==
    /\ ProcessReturned
    /\ pvc.outcome = "write_failed"
    /\ ret.called /\ ~ret.is_successful
    /\ sheet_df # <<>>

\* C24: the frame mirrors the worksheet: a call of process_view_count that
\* appended a row to the worksheet adds exactly one row to the frame and
\* leaves every earlier row of the frame as it was, and a call that updated
\* the last row of the worksheet changes only the chronologically last row
\* of the frame, also when read_and_preprocess_data dropped malformed rows
\* or re-sorted the rows.
C24_FrameMirrorsSheet ==
    [][(pvc'.called /\ pvc'.outcome \in {"returned", "plot_raised"})
        => IF ret'.is_appended
           THEN /\ Len(sheet_df') = Len(sheet_df) + 1
                /\ \A i \in 1..Len(sheet_df) : sheet_df'[i] = sheet_df[i]
           ELSE /\ Len(sheet_df') = Len(sheet_df)
                /\ \A i \in 1..(Len(sheet_df) - 1) : sheet_df'[i] = sheet_df[i]]_vars

\* ------------------------------------------------------------ countdown timer
\* C25: countdown_timer(n) ends for every n >= 0, and when it returns it has
\* made exactly n passes of the loop, each lowering the remaining count by
\* one, whether or not keys were pressed and whether or not a callback was
\* given.
C25_CountdownTerminates ==
    /\ [](timer.pc = "returned" => timer.iterations = timer.n)
    /\ [](timer.pc = "loop" => timer.interval_seconds = timer.n - timer.iterations)
    /\ (timer.pc = "loop") ~> (timer.pc \in Finished)

\* a countdown of two seconds or more returned although a key was pressed
C25_Witness ==
    /\ timer.pc = "returned"
    /\ timer.n >= 2
    /\ timer.iterations = timer.n
    /\ timer.presses >= 1

\* C26: countdown_timer puts the terminal settings it saved on entry back
\* on every way out: the normal end, an exception raised by the callback
\* and a KeyboardInterrupt during the wait.
C26_SettingsRestored ==
    (timer.pc \in Finished /\ timer.old_settings # "none")
        => timer.settings = timer.old_settings

\* Ctrl-C ended a countdown that had saved settings other than the usual
\* ones and had put the terminal into cbreak mode
C26_Witness ==
    /\ timer.pc = "interrupted"
    /\ timer.iterations >= 1
    /\ timer.old_settings = "noecho"
    /\ timer.settings = "noecho"

\* C27: a pass of the loop that finds a key waiting on stdin reads it, so
\* one key press shortens at most one wait of a second and the later passes
\* wait their full second again.
C27_KeyShortensOneWait == timer.short_waits <= timer.presses

\* ------------------------------------------------- pair by pair and local
StrictlyIncreasingTimes == \A i \in 2..Len(df) : df[i - 1].timestamp < df[i].timestamp

NonDecreasingValues == \A i \in 2..Len(df) : df[i - 1].number <= df[i].number

\* the local policy: the internal delta and the two boundary shares of a
\* period with samples, the share of the gap's delta for one without
LocalPolicy(o, p) ==
    IF HasData(o, p)
    THEN FracAdd(<<InternalDelta(o, p), 1>>, FracAdd(LeftShare(o, p), RightShare(o, p)))
    ELSE GapShare(o, p)

FracEq(x, y) == x[1] * y[2] = y[1] * x[2]

\* C28: for samples in time order with strictly increasing times and
\* non-decreasing values, the allocations that calculate_clicks makes pair
\* by pair add up, in every period from the first sample's to the last
\* sample's, to the value of the local policy, and the returned series
\* holds that value at its two decimals.
C28_PairwiseEqualsLocal ==
    (op = "daily" /\ raised = "none" /\ TwoOrMore
     /\ StrictlyIncreasingTimes /\ NonDecreasingValues)
        => \A p \in FullSpan(op) :
            /\ FracEq(SumClicks(period_counts, PeriodStart(op, p), 1), LocalPolicy(op, p))
            /\ \E k \in EntriesOf(p) : result[k].clicks = Round2(LocalPolicy(op, p))

\* three samples with a growing counter: a day with two samples and a
\* delta inside it, an empty day after it and a last sample past the gap
C28_Witness ==
    /\ op = "daily" /\ raised = "none"
    /\ Len(df) = 3
    /\ StrictlyIncreasingTimes
    /\ \E p \in FullSpan(op) :
        /\ HasData(op, p)
        /\ InternalDelta(op, p) > 0
        /\ RightShare(op, p)[1] > 0
        /\ ~HasData(op, p + 1)
        /\ p + 1 \in FullSpan(op)
        /\ GapShare(op, p + 1)[1] > 0

\* ------------------------------------------------------ the ends of the list
\* the entry k of the returned series is the period of some sample
EntryHasData(k) ==
    \E i \in 1..Len(df) :
        PeriodStart(op, PeriodIndex(op, df[i].timestamp)) = result[k].period_start

\* C29: the list of periods that a call builds runs from the period of the
\* first sample to the period of the last sample: its first and its last
\* period contain a sample, so every period without samples has a period
\* with samples before it and one after it, and no period is left without
\* a neighbour with data on either side.
C29_EndsContainSamples ==
    (Returned /\ Len(df) >= 1 /\ result # <<>>)
        => /\ result[1].period_start
                = PeriodStart(op, PeriodIndex(op, FirstSample.timestamp))
           /\ result[Len(result)].period_start
                = PeriodStart(op, PeriodIndex(op, LastSample.timestamp))
           /\ EntryHasData(1) /\ EntryHasData(Len(result))
           /\ \A k \in 1..Len(result) :
                ~EntryHasData(k) =>
                    /\ \E j \in 1..(k - 1) : EntryHasData(j)
                    /\ \E j \in (k + 1)..Len(result) : EntryHasData(j)

\* a daily call whose list holds two periods without samples in a row,
\* between the periods of the samples
C29_Witness ==
    /\ op = "daily" /\ raised = "none"
    /\ \E k \in 2..(Len(result) - 2) : ~EntryHasData(k) /\ ~EntryHasData(k + 1)
    /\ EntryHasData(1) /\ EntryHasData(Len(result))

\* ------------------------------------------------------- shares of a cover
Covered == cover_out.called

RECURSIVE FracSum(_, _)
FracSum(shares, i) ==
    IF i > Len(shares) THEN <<0, 1>> ELSE FracAdd(shares[i], FracSum(shares, i + 1))

\* C30: the shares are additive over a partition: for a pair with
\* value_b > value_a and time_a < time_b and any list of consecutive windows
\* that together cover [time_a, time_b), every share lies between 0 and
\* the delta and the shares add up to exactly the delta.
C30_SharesAdditive ==
    LET a == cover_args
        delta == a.value_b - a.value_a
    IN  (Covered /\ delta > 0 /\ a.time_a < a.time_b)
            => /\ \A i \in 1..Len(cover_out.shares) :
                    /\ cover_out.shares[i][2] > 0
                    /\ 0 <= cover_out.shares[i][1]
                    /\ cover_out.shares[i][1] <= delta * cover_out.shares[i][2]
               /\ FracEq(FracSum(cover_out.shares, 1), <<delta, 1>>)

====
